---- MODULE Spec2Model ----
(***************************************************************************)
(* uniffi-zcash-lib: the FFI adapters of the wallet database               *)
(* (zcash_client_sqlite/mod.rs), the wallet functions                      *)
(* (zcash_client_backend/data_api/wallet/default.rs), the Sapling          *)
(* diversifiable full viewing key and the build/release/publish CLI        *)
(* (uniffi-zcash-cli/src/main.rs).                                         *)
(*                                                                         *)
(* The wrapped library (zcash_client_sqlite, zcash_client_backend,         *)
(* zcash_primitives) is outside the repository: each wrapped operation is  *)
(* modelled by the outcomes its return type allows (Ok(None), Ok(Some x),  *)
(* Ok x, Err e) and, for a write, by a change of the database it acts on.  *)
(***************************************************************************)
EXTENDS Integers, Sequences, FiniteSets, TLC

\* ------------------------------------------------------------------ bounds

\* Successful writes a database takes before the model stops writing to it.
MaxWrites == 2

\* Host-language threads calling into the library: those that share the
\* ZcashWalletDb, and all of them.
Threads == {"t1", "t2"}
AllThreads == Threads \cup {"t3"}

\* Path strings a host may pass to for_path.
Paths == {"wallet_a", "wallet_b"}

\* The length of the encoding of a key (128 in the wrapped library, scaled
\* down) and the byte values tried.
KeyLen == 2
Byte == {0, 1}

\* Values and errors the wrapped library hands back.
Values == {"x"}
WrappedErrors == {"e"}

\* ------------------------------------------------------- values at the FFI

Networks == {"MainNetwork", "TestNetwork"}

NoObject == [path |-> "-", params |-> "-"]

OkNone == [tag |-> "OkNone", val |-> "-"]
OkSome(v) == [tag |-> "OkSome", val |-> v]
Ok(v) == [tag |-> "Ok", val |-> v]
Err(e) == [tag |-> "Err", val |-> e]
Panic == [tag |-> "Panic", val |-> "-"]

\* What the wrapped operation of a call did: not reached, the open failed, or
\* the operation's own outcome.
NotCalled == [tag |-> "NotCalled", val |-> "-"]
OpenErr == [tag |-> "OpenErr", val |-> "-"]

Unit == "()"

\* ZcashError::Message { error } and ZcashError::Unknown.
Message(s) == [variant |-> "Message", error |-> s]
Unknown == [variant |-> "Unknown", error |-> <<>>]

\* format!("<prefix>{:?}", e) and format!("<prefix>{}", e): the prefix, the
\* formatter and the error that was stringified.
Format(prefix, fmt, e) == <<prefix, fmt, e>>

\* From::from of a wrapped value into its mirror type (then Arc::new).
Mirror(v) == <<"Zcash", v>>

\* x.0 of a wrapped newtype.
Field0(v) == <<"field0", v>>

\* cast_err losing the wrapped error.
cast_err_unknown(e) == Unknown

cast_err(e) == Message(Format("Err: ", "{:?}", e))

\* ------------------------------------------------- ZcashWalletDb: the calls

\* Methods written  WalletDb::for_path(..).expect(..).op(..)
\*                    .map(|x| x.map(From::from).map(Arc::new)).map_err(cast_err)
OptionMethods ==
    {"chain_height", "block_metadata", "block_fully_scanned", "block_max_scanned",
     "get_min_unspent_height", "get_block_hash", "get_max_height_hash",
     "get_tx_height", "get_wallet_birthday", "get_current_address",
     "get_account_for_ufvk", "get_wallet_summary", "get_next_available_address"}

\* Methods whose wrapped operation returns a plain value that is mirrored.
ValueMethods ==
    {"suggest_scan_ranges", "get_account_birthday", "get_unified_full_viewing_keys",
     "get_transaction", "get_transparent_receivers",
     "get_unspent_transparent_outputs", "get_transparent_balances",
     "create_account"}

\* Methods whose wrapped operation returns ().
UnitMethods ==
    {"init", "update_chain_tip", "store_decrypted_tx", "truncate_to_height",
     "put_sapling_subtree_roots"}

WalletMethods ==
    OptionMethods \cup ValueMethods \cup UnitMethods \cup
    {"get_target_and_anchor_heights", "is_valid_account_extfvk", "get_memo",
     "put_received_transparent_utxo"}

SpendFns ==
    {"spend_main_fixed", "spend_test_fixed", "spend_main_zip317", "spend_test_zip317"}

ShieldFns ==
    {"shield_transparent_funds_main_fixed", "shield_transparent_funds_test_fixed",
     "shield_transparent_funds_main_zip317", "shield_transparent_funds_test_zip317"}

\* The free functions of data_api/wallet/default.rs, which take the
\* ZcashWalletDb as an argument.
WalletFns == {"decrypt_and_store_transaction"} \cup SpendFns \cup ShieldFns

WalletCalls == WalletMethods \cup WalletFns

\* The calls whose wrapped operation writes to the database (WalletWrite,
\* WalletCommitmentTrees, wallet::init, wallet::spend, ...).
WriteCalls ==
    {"init", "create_account", "get_next_available_address", "update_chain_tip",
     "store_decrypted_tx", "truncate_to_height", "put_received_transparent_utxo",
     "put_sapling_subtree_roots"} \cup WalletFns

\* The arguments of a call that the adapter itself inspects: min_confirmations
\* (zero or not), whether shielding_threshold is a valid amount, and the params
\* argument of decrypt_and_store_transaction.
CallArgs == [min_confirmations : {0, 1}, threshold_ok : BOOLEAN, params : Networks]

DefaultArgs == [min_confirmations |-> 1, threshold_ok |-> TRUE, params |-> "MainNetwork"]

\* NonZeroU32::new(min_confirmations).unwrap() and
\* ZcashNonNegativeAmount::from_u64(shielding_threshold).unwrap(), which run
\* before the database is opened: FALSE when one of them panics.
PreUnwrapOk(f, a) ==
    CASE f = "get_target_and_anchor_heights" -> a.min_confirmations # 0
      [] f \in SpendFns -> a.min_confirmations # 0
      [] f \in ShieldFns -> a.min_confirmations # 0 /\ a.threshold_ok
      [] OTHER -> TRUE

\* The parameters taken from the call's arguments whatever the call.
OpenParamsFromArgs(f, obj, a) == a.params

\* The network parameters handed to WalletDb::for_path.
OpenParams(f, obj, a) ==
    CASE f \in WalletMethods -> obj.params
      [] f = "decrypt_and_store_transaction" -> a.params
      [] f \in {"spend_main_fixed", "spend_main_zip317",
                "shield_transparent_funds_main_fixed",
                "shield_transparent_funds_main_zip317"} -> "MainNetwork"
      [] OTHER -> "TestNetwork"

\* The outcomes the wrapped operation of call f can have.
WrappedOutcomes(f) ==
    LET errs == {Err(e) : e \in WrappedErrors}
    IN  CASE f \in OptionMethods \cup {"get_target_and_anchor_heights", "get_memo"} ->
                {OkNone} \cup {OkSome(v) : v \in Values} \cup errs
          [] f \in UnitMethods \cup {"decrypt_and_store_transaction"} ->
                {Ok(Unit)} \cup errs
          [] OTHER -> {Ok(v) : v \in Values} \cup errs

\* The message of the ZcashError::Message a call builds from a wrapped error.
ErrMessage(f, e) ==
    CASE f = "init" -> Message(Format("Error while initializing data DB: ", "{:?}", e))
      [] f = "get_target_and_anchor_heights" -> Message(Format("Err: ", "{}", e))
      [] f = "put_sapling_subtree_roots" -> Message(Format("ShardTreeError: ", "{:?}", e))
      [] f = "decrypt_and_store_transaction" ->
            Message(Format("decrypt and store transaction error: ", "{:?}", e))
      [] f \in {"spend_main_fixed", "spend_main_zip317"} ->
            Message(Format("spending error (spend_main): ", "{:?}", e))
      [] f \in {"spend_test_fixed", "spend_test_zip317"} ->
            Message(Format("spending error (spend test): ", "{:?}", e))
      [] f \in ShieldFns -> Message(Format("spending error: ", "{:?}", e))
      [] OTHER -> cast_err(e)

\* What a call returns across the FFI for outcome o of its wrapped operation.
AdapterResult(f, o) ==
    CASE o.tag = "Err" -> Err(ErrMessage(f, o.val))
      [] o.tag = "OkNone" -> IF f = "get_memo" THEN Panic ELSE OkNone
      [] o.tag = "OkSome" -> IF f = "get_memo" THEN Ok(Mirror(o.val))
                                               ELSE OkSome(Mirror(o.val))
      [] OTHER -> CASE f \in UnitMethods \cup {"decrypt_and_store_transaction"} -> Ok(Unit)
                    [] f = "is_valid_account_extfvk" -> Ok(o.val)
                    [] f = "put_received_transparent_utxo" -> Ok(Field0(o.val))
                    [] OTHER -> Ok(Mirror(o.val))

\* The open failure handed back as an error value instead.
OpenFailureAsErr(f) == Err(Message(Format("Cannot access the DB!", "{:?}", "open")))

\* The result of a call whose WalletDb::for_path failed:
\* .expect("Cannot access the DB!") / .unwrap() panics.
OpenFailure(f) == Panic

\* The open connections: one record per WalletDb value alive.
OpenHandle(hs, t, path, params) ==
    hs \cup {[owner |-> t, path |-> path, params |-> params]}

\* The connection kept after the call.
KeepHandle(hs, t) == hs

\* The WalletDb temporary (or local) of t's call is dropped when the call ends.
DropHandle(hs, t) == {h \in hs : h.owner # t}

\* ------------------------------------------------------- ZcashFsBlockDb

FsMethods == {"find_block", "get_max_cached_height", "write_block_metadata"}

FsWrappedOutcomes(m) ==
    LET errs == {Err(e) : e \in WrappedErrors}
    IN  IF m = "write_block_metadata" THEN {Ok(Unit)} \cup errs
        ELSE {OkNone} \cup {OkSome(v) : v \in Values} \cup errs

FsResult(m, o) ==
    CASE o.tag = "Err" -> Err(Message(Format("FsBlockDbError: ", "{:?}", o.val)))
      [] o.tag = "OkNone" -> OkNone
      [] o.tag = "OkSome" -> OkSome(Mirror(o.val))
      [] OTHER -> Ok(Unit)

\* No mutual exclusion.
LockAlways(holder) == TRUE

\* self.fs_block_db.lock(): the caller goes on only when no thread holds the
\* mutex.
LockAvailable(holder) == holder = "free"

\* ------------------------------------- ZcashDiversifiableFullViewingKey

\* The byte vectors a host may pass: every length up to one more than the
\* encoding's.
KeyBytes == UNION {[1..n -> Byte] : n \in 0..(KeyLen + 1)}

\* utils::cast_slice(&bytes): the vector as a fixed-size array, or an error.
cast_slice(b) ==
    IF Len(b) = KeyLen THEN Ok(b)
    ELSE Err(Message(Format("cast_slice: ", "{:?}", "length")))

\* The wrapped key: the full viewing key part (one symbol here) and the
\* diversifier key, any bytes.
WrappedKeys == [fvk : Byte \ {0}, dk : [1..(KeyLen - 1) -> Byte]]

\* DiversifiableFullViewingKey::from_bytes(&array): Option<key>; None when the
\* full viewing key part does not decode (here: is 0).
WrappedKeyFromBytes(array) ==
    IF Head(array) # 0 THEN OkSome([fvk |-> Head(array), dk |-> Tail(array)])
    ELSE OkNone

\* DiversifiableFullViewingKey::to_bytes(): the two parts, in that order.
WrappedKeyToBytes(k) == <<k.fvk>> \o k.dk

from_bytes(b) ==
    LET array == cast_slice(b)
    IN  IF array.tag = "Err" THEN array
        ELSE IF WrappedKeyFromBytes(array.val).tag = "OkNone" THEN Err(Unknown)
        ELSE Ok(Mirror(WrappedKeyFromBytes(array.val).val))

\* to_bytes losing the last byte.
to_bytes_short(self) == SubSeq(WrappedKeyToBytes(self[2]), 1, KeyLen - 1)

\* self.0.to_bytes().into()
to_bytes(self) == WrappedKeyToBytes(self[2])

\* ------------------------------------------------------------------- state

VARIABLES
    wdb,        \* the ZcashWalletDb object: its path and params fields
    canOpen,    \* per path: does WalletDb::for_path succeed now (file system)
    store,      \* per path: the wallet database, as the writes applied to it
    handles,    \* the WalletDb connections that are open
    pc,         \* per thread: "idle", "opened" (in a wallet call, connection
                \* open), "fs_locked" (in a ZcashFsBlockDb call, mutex held)
    cur,        \* per thread: the call it is in
    ret,        \* what the host observed last: the call that returned, its
                \* result, what its wrapped operation did and, for a key, the
                \* bytes it was parsed from (NoReturn while a call is running
                \* or when the host does not look)
    fsdb,       \* the ZcashFsBlockDb object: "none" or "open"
    fsCanOpen,  \* does FsBlockDb::for_path succeed now
    fsLock,     \* holder of the fs_block_db mutex, or "free"
    fsStore     \* the block-metadata database, as the writes applied to it

ffiVars == <<wdb, canOpen, store, handles, pc, cur, ret, fsdb, fsCanOpen, fsLock, fsStore>>

\* The workspace the CLI runs in (root_dir) and what it did last.
VARIABLES
    bindings,   \* root_dir/bindings: [exists, files], files a set of <<path, content>>
    packages,   \* root_dir/packages: the same
    last,       \* the last CLI run: subcommand, enabled_languages, version, the
                \* operation main dispatched to, its result, and the steps it ran
    released,   \* the languages for which the last release ran all its steps
    retry       \* the cmd_retry call in progress or ended last: the command, the
                \* attempts made, the delays slept and the call's status

cliVars == <<bindings, packages, last, released, retry>>

vars == <<ffiVars, cliVars>>

NoReturn == [fn |-> "-", res |-> NotCalled, wrapped |-> NotCalled, arg |-> <<>>]

\* The host's record of a return (obs: the host records returns).
Returned(obs, f, res, w) ==
    IF obs THEN [fn |-> f, res |-> res, wrapped |-> w, arg |-> <<>>] ELSE NoReturn

\* The argument values of call f that the adapter's code distinguishes.
ArgsOf(f) ==
    {a \in CallArgs :
        /\ (f \notin SpendFns \cup ShieldFns \cup {"get_target_and_anchor_heights"}
                => a.min_confirmations = DefaultArgs.min_confirmations)
        /\ (f \notin ShieldFns => a.threshold_ok = DefaultArgs.threshold_ok)
        /\ (f # "decrypt_and_store_transaction" => a.params = DefaultArgs.params)}

\* ------------------------------------------------ the CLI: the workspace

\* The enabled_languages arguments tried: orders other than the declaration
\* order, a duplicate and a name that is no supported language.
EnabledInputs ==
    {<<"kotlin", "python">>, <<"swift", "ruby", "go", "swift">>, <<"ruby">>, <<"go">>}

Versions == {"0.1.0", "0.2.0"}

\* The subcommands main can be reached with: the three it matches, setup,
\* and none at all.
Subcommands == {"setup", "bindgen", "release", "publish", "(none)"}

NoRun == [cmd |-> "-", enabled |-> <<>>, version |-> "-", dispatched |-> "-",
          result |-> "-", log |-> <<>>]

NoRetry == [cmd |-> "-", attempts |-> 0, waits |-> <<>>, status |-> "idle"]

CommandNotFound == "Command not found. See help."
NeedsBindgen == "This command depends on the output of bindgen . Execute it first."
NeedsRelease == "This command depends on the output of: release . Execute it first."

\* A directory of the workspace: whether it exists and its files, each a pair
\* <<path relative to the directory, content>>.
NoDir == [exists |-> FALSE, files |-> {}]
EmptyDir == [exists |-> TRUE, files |-> {}]

Has(d, path) == \E f \in d.files : f[1] = path
ContentOf(d, path) == (CHOOSE f \in d.files : f[1] = path)[2]
Put(d, path, content) ==
    [exists |-> TRUE, files |-> {f \in d.files : f[1] # path} \cup {<<path, content>>}]
Remove(d, path) == [d EXCEPT !.files = {f \in d.files : f[1] # path}]

\* SupportedLang::iter(): the variants in declaration order, each under the
\* name strum serializes it to.
SupportedLang == <<"python", "kotlin", "swift", "ruby">>

\* The argument iterated instead of the enum.
EnabledInArgOrder(enabled_languages) ==
    SelectSeq(enabled_languages,
              LAMBDA l : \E i \in DOMAIN SupportedLang : SupportedLang[i] = l)

\* SupportedLang::iter().filter(|sl| enabled_languages.contains(&sl.to_string()))
EnabledLangs(enabled_languages) ==
    SelectSeq(SupportedLang,
              LAMBDA sl : \E i \in DOMAIN enabled_languages : enabled_languages[i] = sl)

\* The text a template holds where the version goes.
Placeholder == "{{version}}"

\* One step of a command. kind: "cmd" (an external command, or an operation on
\* files outside the workspace), "copy", "rename", "replace"
\* (in_file_template_replace with the version), "patch" (the ffi_lib rewrite of
\* zcash.rb). dir: the directory a cmd writes `out` to. needs / needsFile: the
\* paths, and the <<path, content>> pairs, of packages without which the step
\* fails. mayFail: the step can fail for reasons outside the workspace.
Step(lang, id, kind, dir, src, dst, out, needs, needsFile, mayFail) ==
    [lang |-> lang, id |-> id, kind |-> kind, dir |-> dir, src |-> src, dst |-> dst,
     out |-> out, needs |-> needs, needsFile |-> needsFile, mayFail |-> mayFail]

Cmd(lang, id) == Step(lang, id, "cmd", "-", "-", "-", {}, {}, {}, TRUE)
CmdOut(lang, id, dir, out) == Step(lang, id, "cmd", dir, "-", "-", out, {}, {}, TRUE)
\* The copy reading from the language's lib directory of bindings.
CopyFromLib(lang, id, src, dst) ==
    Step(lang, id, "copy", "packages", "lib/" \o src, dst, {}, {}, {}, FALSE)

Copy(lang, id, src, dst) == Step(lang, id, "copy", "packages", src, dst, {}, {}, {}, FALSE)
Template(lang, id, out) == Step(lang, id, "cmd", "packages", "-", "-", out, {}, {}, FALSE)

\* The version never written into the template.
ReplaceNothing(lang, id, dst) == Step(lang, id, "cmd", "-", "-", dst, {}, {}, {}, FALSE)

Replace(lang, id, dst) == Step(lang, id, "replace", "packages", "-", dst, {}, {}, {}, FALSE)
TestApp(lang) == Step(lang, "copy test app", "cmd", "-", "-", "-", {}, {}, {}, FALSE)
Push(lang, id, needs, needsFile) ==
    Step(lang, id, "cmd", "-", "-", "-", {}, needs, needsFile, TRUE)

\* generate_shared_lib: cargo build --release.
generate_shared_lib == <<Cmd("-", "cargo build --release")>>

\* generate_bindings, the closure run for one language.
BindgenSteps(lang) ==
    LET gen(out) == CmdOut(lang, "uniffi-bindgen generate", "bindings", out)
        lib == Step(lang, "copy shared lib", "cmd", "bindings", "-", "-",
                    {<<lang \o "/libuniffi_zcash.so", "libuniffi_zcash.so">>}, {}, {}, FALSE)
    IN  CASE lang = "python" -> <<gen({<<"python/zcash.py", "zcash.py">>}), lib>>
          [] lang = "kotlin" ->
                <<gen({<<"kotlin/uniffi/zcash/zcash.kt", "zcash.kt">>}), lib,
                  Step(lang, "rename shared lib", "rename", "bindings",
                       "kotlin/libuniffi_zcash.so", "kotlin/uniffi/zcash/libuniffi_zcash.so",
                       {}, {}, {}, FALSE),
                  CmdOut(lang, "copy jna.jar", "bindings",
                         {<<"kotlin/uniffi/zcash/jna.jar", "jna.jar">>})>>
          [] lang = "swift" ->
                <<gen({<<"swift/zcash.swift", "zcash.swift">>,
                       <<"swift/zcashFFI.h", "zcashFFI.h">>,
                       <<"swift/zcashFFI.modulemap", "zcashFFI.modulemap">>}), lib,
                  CmdOut(lang, "swiftc", "bindings",
                         {<<"swift/libuniffi_zcash.dylib", "libuniffi_zcash.dylib">>})>>
          [] OTHER -> <<gen({<<"ruby/zcash.rb", "zcash.rb">>}), lib>>

\* prepare_release, the match arm of one language.
ReleaseSteps(lang, version) ==
    CASE lang = "python" ->
            <<Template(lang, "copy template", {<<"python/setup.py", Placeholder>>}),
              Copy(lang, "copy shared lib", "python/libuniffi_zcash.so",
                   "python/zcash/libuniffi_zcash.so"),
              Copy(lang, "copy binding", "python/zcash.py", "python/zcash/zcash.py"),
              Replace(lang, "set version", "python/setup.py"),
              Cmd(lang, "pip install build"),
              CmdOut(lang, "python -m build", "packages", {<<"python/dist", version>>}),
              Cmd(lang, "pip install ."),
              TestApp(lang),
              Cmd(lang, "run test app")>>
      [] lang = "kotlin" ->
            <<Template(lang, "copy template", {<<"kotlin/lib/build.gradle.kts", Placeholder>>,
                                               <<"kotlin/gradlew", "gradlew">>}),
              Copy(lang, "copy shared lib", "kotlin/uniffi/zcash/libuniffi_zcash.so",
                   "kotlin/lib/libs/libuniffi_zcash.so"),
              Copy(lang, "copy binding", "kotlin/uniffi/zcash/zcash.kt",
                   "kotlin/lib/src/main/kotlin/zcash/Zcash.kt"),
              Replace(lang, "set version", "kotlin/lib/build.gradle.kts"),
              Cmd(lang, "gradle publishToMavenLocal"),
              TestApp(lang),
              Cmd(lang, "run test app")>>
      [] lang = "swift" ->
            <<CmdOut(lang, "git clone", "packages", {<<"swift/Zcash/.git", "clone">>}),
              Template(lang, "copy template", {<<"swift/Zcash/Package.swift", "Package.swift">>}),
              Copy(lang, "copy shared lib", "swift/libuniffi_zcash.so",
                   "swift/Zcash/Sources/zcashFFI/libuniffi_zcash.so"),
              Copy(lang, "copy header", "swift/zcashFFI.h",
                   "swift/Zcash/Sources/zcashFFI/uniffi_zcash.h"),
              Copy(lang, "copy binding", "swift/zcash.swift",
                   "swift/Zcash/Sources/Zcash/zcash.swift"),
              Cmd(lang, "git add"),
              Cmd(lang, "git commit"),
              CmdOut(lang, "git tag", "packages", {<<"swift/Zcash/.git/tag", version>>}),
              TestApp(lang),
              Cmd(lang, "run test app")>>
      [] OTHER ->
            <<Template(lang, "copy template", {<<"ruby/zcash.gemspec", Placeholder>>}),
              Copy(lang, "copy shared lib", "ruby/libuniffi_zcash.so",
                   "ruby/lib/libuniffi_zcash.so"),
              Copy(lang, "copy binding", "ruby/zcash.rb", "ruby/lib/zcash.rb"),
              Replace(lang, "set version", "ruby/zcash.gemspec"),
              Step(lang, "patch ffi_lib", "patch", "packages", "-", "ruby/lib/zcash.rb",
                   {}, {}, {}, FALSE),
              CmdOut(lang, "gem build", "packages", {<<"ruby/zcash.gem", version>>}),
              Step(lang, "gem install", "cmd", "-", "-", "-", {}, {},
                   {<<"ruby/zcash.gem", version>>}, TRUE),
              TestApp(lang),
              Cmd(lang, "run test app")>>

\* publish, the match arm of one language. The publication commands run in
\* the language's package directory, on what release left there.
PublishSteps(lang, version) ==
    CASE lang = "python" ->
            <<Cmd(lang, "pip install twine"),
              Push(lang, "twine upload", {"python/dist"}, {})>>
      [] lang = "kotlin" ->
            <<Push(lang, "gradlew publish",
                   {"kotlin/gradlew", "kotlin/lib/src/main/kotlin/zcash/Zcash.kt",
                    "kotlin/lib/libs/libuniffi_zcash.so"}, {})>>
      [] lang = "swift" ->
            <<Push(lang, "git push", {"swift/Zcash/.git"}, {}),
              Push(lang, "git push --tags", {"swift/Zcash/.git"}, {})>>
      [] OTHER ->
            <<Push(lang, "gem push", {}, {<<"ruby/zcash.gem", version>>})>>

\* The steps of a command for the enabled languages, in the order they run.
RECURSIVE Plan(_, _, _, _)
Plan(cmd, langs, version, i) ==
    IF i > Len(langs) THEN <<>>
    ELSE (CASE cmd = "bindgen" -> BindgenSteps(langs[i])
            [] cmd = "release" -> ReleaseSteps(langs[i], version)
            [] OTHER -> PublishSteps(langs[i], version))
         \o Plan(cmd, langs, version, i + 1)

\* The workspace and the log while a command runs.
RunState(b, p) == [bindings |-> b, packages |-> p, log |-> <<>>, ok |-> TRUE,
                   result |-> "Ok"]

\* Does step s fail in state st: a file it reads or needs is missing, or it is
\* the step that fails for outside reasons in this run.
StepFails(st, s, i, failAt) ==
    \/ s.mayFail /\ i = failAt
    \/ s.kind = "copy" /\ ~Has(st.bindings, s.src)
    \/ s.kind = "rename" /\ ~Has(st.bindings, s.src)
    \/ s.kind \in {"replace", "patch"} /\ ~Has(st.packages, s.dst)
    \/ \E n \in s.needs : ~Has(st.packages, n)
    \/ \E n \in s.needsFile : n \notin st.packages.files

\* The files of directory d after step s.
RECURSIVE PutAll(_, _)
PutAll(d, out) ==
    IF out = {} THEN d
    ELSE LET f == CHOOSE x \in out : TRUE
         IN  PutAll(Put(d, f[1], f[2]), out \ {f})

ApplyStep(st, s, version) ==
    CASE s.kind = "cmd" /\ s.dir = "bindings" ->
            [st EXCEPT !.bindings = PutAll(@, s.out)]
      [] s.kind = "cmd" /\ s.dir = "packages" ->
            [st EXCEPT !.packages = PutAll(@, s.out)]
      [] s.kind = "copy" ->
            [st EXCEPT !.packages = Put(@, s.dst, ContentOf(st.bindings, s.src))]
      [] s.kind = "rename" ->
            [st EXCEPT !.bindings = Put(Remove(@, s.src), s.dst, ContentOf(@, s.src))]
      [] s.kind = "replace" ->
            [st EXCEPT !.packages = Put(@, s.dst, version)]
      [] s.kind = "patch" ->
            [st EXCEPT !.packages = Put(@, s.dst, ContentOf(@, s.dst) \o "+ffi_lib path")]
      [] OTHER -> st

\* The run going on to the next step after a failure.
RECURSIVE RunStepsKeepGoing(_, _, _, _, _)
RunStepsKeepGoing(st, plan, i, failAt, version) ==
    IF i > Len(plan) THEN st
    ELSE IF StepFails(st, plan[i], i, failAt)
    THEN RunStepsKeepGoing(
             [st EXCEPT !.log = Append(@, <<plan[i].lang, plan[i].id, "failed">>),
                        !.ok = FALSE, !.result = "step failed"],
             plan, i + 1, failAt, version)
    ELSE RunStepsKeepGoing(
             [ApplyStep(st, plan[i], version)
                 EXCEPT !.log = Append(@, <<plan[i].lang, plan[i].id, "ok">>)],
             plan, i + 1, failAt, version)

\* try_for_each over the steps: the first failing step ends the run.
RECURSIVE RunSteps(_, _, _, _, _)
RunSteps(st, plan, i, failAt, version) ==
    IF i > Len(plan) THEN st
    ELSE IF StepFails(st, plan[i], i, failAt)
    THEN [st EXCEPT !.log = Append(@, <<plan[i].lang, plan[i].id, "failed">>),
                    !.ok = FALSE, !.result = "step failed"]
    ELSE RunSteps([ApplyStep(st, plan[i], version)
                      EXCEPT !.log = Append(@, <<plan[i].lang, plan[i].id, "ok">>)],
                  plan, i + 1, failAt, version)

\* The step that fails for outside reasons in a run: none (0) or one of the
\* steps that can.
FailPoints(plan) == {0} \cup {i \in DOMAIN plan : plan[i].mayFail}

Init ==
    /\ wdb = NoObject
    /\ canOpen \in [Paths -> BOOLEAN]
    /\ store = [p \in Paths |-> 0]
    /\ handles = {}
    /\ pc = [t \in AllThreads |-> "idle"]
    /\ cur = [t \in AllThreads |-> "-"]
    /\ ret = NoReturn
    /\ fsdb = "none"
    /\ fsCanOpen \in BOOLEAN
    /\ fsLock = "free"
    /\ fsStore = 0
    /\ bindings = NoDir
    /\ packages = NoDir
    /\ last = NoRun
    /\ released = {}
    /\ retry = NoRetry

\* ZcashWalletDb::for_path: stores the two arguments.
ForPath(path, params, obs) ==
    /\ wdb = NoObject
    /\ wdb' = [path |-> path, params |-> params]
    /\ ret' = Returned(obs, "ZcashWalletDb::for_path", Ok("ZcashWalletDb"), NotCalled)
    /\ UNCHANGED <<cliVars, canOpen, store, handles, pc, cur, fsdb, fsCanOpen, fsLock, fsStore>>

\* The first half of a wallet call: the unwraps of the arguments, then
\* WalletDb::for_path(..).expect(..).
WalletOpen(t, f, a, obs) ==
    /\ wdb # NoObject
    /\ pc[t] = "idle"
    /\ IF ~PreUnwrapOk(f, a)
       THEN /\ ret' = Returned(obs, f, Panic, NotCalled)
            /\ UNCHANGED <<handles, pc, cur>>
       ELSE IF ~canOpen[wdb.path]
       THEN /\ ret' = Returned(obs, f, OpenFailure(f), OpenErr)
            /\ UNCHANGED <<handles, pc, cur>>
       ELSE /\ handles' = OpenHandle(handles, t, wdb.path, OpenParams(f, wdb, a))
            /\ pc' = [pc EXCEPT ![t] = "opened"]
            /\ cur' = [cur EXCEPT ![t] = f]
            /\ ret' = NoReturn
    /\ UNCHANGED <<cliVars, wdb, canOpen, store, fsdb, fsCanOpen, fsLock, fsStore>>

\* The second half: the wrapped operation on the open connection, the
\* conversion of its result, the drop of the connection, the return.
WalletExec(t, o, obs) ==
    /\ pc[t] = "opened"
    /\ o \in WrappedOutcomes(cur[t])
    /\ LET h == CHOOSE x \in handles : x.owner = t
           writes == cur[t] \in WriteCalls /\ o.tag # "Err"
       IN  /\ writes => store[h.path] < MaxWrites
           /\ store' = IF writes THEN [store EXCEPT ![h.path] = @ + 1] ELSE store
    /\ ret' = Returned(obs, cur[t], AdapterResult(cur[t], o), o)
    /\ handles' = DropHandle(handles, t)
    /\ pc' = [pc EXCEPT ![t] = "idle"]
    /\ cur' = [cur EXCEPT ![t] = "-"]
    /\ UNCHANGED <<cliVars, wdb, canOpen, fsdb, fsCanOpen, fsLock, fsStore>>

\* ZcashFsBlockDb::for_path: FsBlockDb::for_path(..).unwrap() inside Mutex::new.
FsForPath(t) ==
    /\ pc[t] = "idle"
    /\ fsdb = "none"
    /\ IF fsCanOpen
       THEN /\ fsdb' = "open"
            /\ ret' = Returned(TRUE, "ZcashFsBlockDb::for_path", Ok("ZcashFsBlockDb"),
                               Ok("FsBlockDb"))
       ELSE /\ fsdb' = fsdb
            /\ ret' = Returned(TRUE, "ZcashFsBlockDb::for_path", Panic, OpenErr)
    /\ UNCHANGED <<cliVars, wdb, canOpen, store, handles, pc, cur, fsCanOpen, fsLock, fsStore>>

\* self.fs_block_db.lock().unwrap(): the guard is taken and the wrapped
\* operation starts.
FsLock(t, m) ==
    /\ fsdb = "open"
    /\ pc[t] = "idle"
    /\ LockAvailable(fsLock)
    /\ fsLock' = t
    /\ pc' = [pc EXCEPT ![t] = "fs_locked"]
    /\ cur' = [cur EXCEPT ![t] = m]
    /\ ret' = NoReturn
    /\ UNCHANGED <<cliVars, wdb, canOpen, store, handles, fsdb, fsCanOpen, fsStore>>

\* The wrapped operation ends, its result is converted, and the guard (a
\* temporary of the statement) is dropped as the method returns.
FsExec(t, o) ==
    /\ pc[t] = "fs_locked"
    /\ o \in FsWrappedOutcomes(cur[t])
    /\ LET writes == cur[t] = "write_block_metadata" /\ o.tag # "Err"
       IN  /\ writes => fsStore < MaxWrites
           /\ fsStore' = IF writes THEN fsStore + 1 ELSE fsStore
    /\ ret' = Returned(TRUE, cur[t], FsResult(cur[t], o), o)
    /\ fsLock' = "free"
    /\ pc' = [pc EXCEPT ![t] = "idle"]
    /\ cur' = [cur EXCEPT ![t] = "-"]
    /\ UNCHANGED <<cliVars, wdb, canOpen, store, handles, fsdb, fsCanOpen>>

\* ZcashDiversifiableFullViewingKey::from_bytes.
KeyFromBytes(t, b) ==
    /\ pc[t] = "idle"
    /\ ret' = [Returned(TRUE, "from_bytes", from_bytes(b),
                        IF Len(b) = KeyLen THEN WrappedKeyFromBytes(b) ELSE NotCalled)
                  EXCEPT !.arg = b]
    /\ UNCHANGED <<cliVars, wdb, canOpen, store, handles, pc, cur, fsdb, fsCanOpen, fsLock, fsStore>>

\* From<DiversifiableFullViewingKey>: a key the wrapped library derived.
KeyFrom(t, k) ==
    /\ pc[t] = "idle"
    /\ ret' = Returned(TRUE, "from", Ok(Mirror(k)), OkSome(k))
    /\ UNCHANGED <<cliVars, wdb, canOpen, store, handles, pc, cur, fsdb, fsCanOpen, fsLock, fsStore>>

\* to_bytes on the key object the host obtained last.
KeyToBytes(t) ==
    /\ pc[t] = "idle"
    /\ ret.fn \in {"from_bytes", "from"}
    /\ ret.res.tag = "Ok"
    /\ ret' = [Returned(TRUE, "to_bytes", Ok(to_bytes(ret.res.val)), ret.wrapped)
                  EXCEPT !.arg = ret.arg]
    /\ UNCHANGED <<cliVars, wdb, canOpen, store, handles, pc, cur, fsdb, fsCanOpen, fsLock, fsStore>>

\* The file system changes under the library: a path becomes (un)openable.
EnvWallet(p) ==
    /\ canOpen' = [canOpen EXCEPT ![p] = ~@]
    /\ UNCHANGED <<cliVars, wdb, store, handles, pc, cur, ret, fsdb, fsCanOpen, fsLock, fsStore>>

EnvFs ==
    /\ fsdb = "none"
    /\ fsCanOpen' = ~fsCanOpen
    /\ UNCHANGED <<cliVars, wdb, canOpen, store, handles, pc, cur, ret, fsdb, fsLock, fsStore>>

AllOutcomes ==
    {OkNone} \cup {OkSome(v) : v \in Values} \cup {Ok(v) : v \in Values \cup {Unit}}
        \cup {Err(e) : e \in WrappedErrors}

\* One host thread calling every adapter, its returns recorded.
MainThread == "t1"

Next ==
    \/ \E p \in Paths, n \in Networks : ForPath(p, n, TRUE)
    \/ \E f \in WalletCalls : \E a \in ArgsOf(f) : WalletOpen(MainThread, f, a, TRUE)
    \/ \E o \in AllOutcomes : WalletExec(MainThread, o, TRUE)
    \/ FsForPath(MainThread)
    \/ \E m \in FsMethods : FsLock(MainThread, m)
    \/ \E o \in AllOutcomes : FsExec(MainThread, o)
    \/ \E b \in KeyBytes : KeyFromBytes(MainThread, b)
    \/ \E k \in WrappedKeys : KeyFrom(MainThread, k)
    \/ KeyToBytes(MainThread)
    \/ \E p \in Paths : EnvWallet(p)
    \/ EnvFs

Spec == Init /\ [][Next]_vars

\* Several host threads calling the wallet adapters on one ZcashWalletDb; only
\* the connections are looked at.
NextWallet ==
    \/ \E p \in Paths, n \in Networks : ForPath(p, n, FALSE)
    \/ \E t \in Threads, f \in WalletCalls : \E a \in ArgsOf(f) : WalletOpen(t, f, a, FALSE)
    \/ \E t \in Threads, o \in AllOutcomes : WalletExec(t, o, FALSE)
    \/ \E p \in Paths : EnvWallet(p)

SpecWallet == Init /\ [][NextWallet]_vars

\* Several host threads calling one ZcashFsBlockDb.
NextFs ==
    \/ \E t \in AllThreads : FsForPath(t)
    \/ \E t \in AllThreads, m \in FsMethods : FsLock(t, m)
    \/ \E t \in AllThreads, o \in AllOutcomes : FsExec(t, o)
    \/ EnvFs

SpecFs == Init /\ [][NextFs]_vars

\* ------------------------------------------------------ the CLI: main

\* The languages all of whose release steps ran in log.
Completed(log) ==
    {l \in {SupportedLang[i] : i \in DOMAIN SupportedLang} :
        \E i \in DOMAIN log : log[i] = <<l, "run test app", "ok">>}

\* The plans of the runs tried, computed once.
PlanOf ==
    [cmd \in {"bindgen", "release", "publish"}, e \in EnabledInputs,
     v \in Versions \cup {"-"} |-> Plan(cmd, EnabledLangs(e), v, 1)]

BindgenPlan(enabled) == generate_shared_lib \o PlanOf["bindgen", enabled, "-"]
ReleasePlan(enabled, version) == PlanOf["release", enabled, version]
PublishPlan(enabled, version) == PlanOf["publish", enabled, version]

\* bindgen removing the bindings before it builds the library.
BindgenWipeFirst(enabled, failAt) ==
    LET plan == BindgenPlan(enabled)
        built == RunSteps(RunState(NoDir, packages), generate_shared_lib, 1, failAt, "-")
        st == IF built.ok THEN RunSteps(built, plan, 2, failAt, "-") ELSE built
    IN  /\ failAt \in FailPoints(plan)
        /\ bindings' = st.bindings
        /\ last' = [cmd |-> "bindgen", enabled |-> enabled, version |-> "-",
                    dispatched |-> "generate_bindings", result |-> st.result,
                    log |-> st.log]
        /\ UNCHANGED <<ffiVars, retry, packages, released>>

\* main, subcommand bindgen: generate_shared_lib, then generate_bindings.
Bindgen(enabled, failAt) ==
    LET plan == BindgenPlan(enabled)
        built == RunSteps(RunState(bindings, packages), generate_shared_lib, 1, failAt, "-")
        \* _ = remove_dir_all(&target_bindings_path), once the library is built
        st == IF built.ok
              THEN RunSteps([built EXCEPT !.bindings = NoDir], plan, 2, failAt, "-")
              ELSE built
    IN  /\ failAt \in FailPoints(plan)
        /\ bindings' = st.bindings
        /\ last' = [cmd |-> "bindgen", enabled |-> enabled, version |-> "-",
                    dispatched |-> "generate_bindings", result |-> st.result,
                    log |-> st.log]
        /\ UNCHANGED <<ffiVars, retry, packages, released>>

\* prepare_release testing for the bindings after it cleared the packages.
prepare_release_late(b, p, enabled, version, failAt) ==
    IF ~b.exists
    THEN [RunState(b, EmptyDir) EXCEPT !.ok = FALSE, !.result = NeedsBindgen]
    ELSE RunSteps(RunState(b, EmptyDir), ReleasePlan(enabled, version), 1, failAt, version)

\* prepare_release.
prepare_release(b, p, enabled, version, failAt) ==
    IF ~b.exists
    THEN [RunState(b, p) EXCEPT !.ok = FALSE, !.result = NeedsBindgen]
    ELSE \* _ = remove_dir_all(&packaging_dir); create_dir_all(&packaging_dir)?
         RunSteps(RunState(b, EmptyDir), ReleasePlan(enabled, version), 1, failAt, version)

\* main, subcommand release.
Release(enabled, version, failAt) ==
    LET st == prepare_release(bindings, packages, enabled, version, failAt)
    IN  /\ failAt \in FailPoints(ReleasePlan(enabled, version))
        /\ ~bindings.exists => failAt = 0
        /\ packages' = st.packages
        /\ released' = Completed(st.log)
        /\ last' = [cmd |-> "release", enabled |-> enabled, version |-> version,
                    dispatched |-> "prepare_release", result |-> st.result,
                    log |-> st.log]
        /\ UNCHANGED <<ffiVars, retry, bindings>>

\* publish without the test for the packages directory.
publish_unchecked(b, p, enabled, version, failAt) ==
    RunSteps(RunState(b, p), PublishPlan(enabled, version), 1, failAt, version)

\* publish.
publish(b, p, enabled, version, failAt) ==
    IF ~p.exists
    THEN [RunState(b, p) EXCEPT !.ok = FALSE, !.result = NeedsRelease]
    ELSE RunSteps(RunState(b, p), PublishPlan(enabled, version), 1, failAt, version)

\* main, subcommand publish.
Publish(enabled, version, failAt) ==
    LET st == publish(bindings, packages, enabled, version, failAt)
    IN  /\ failAt \in FailPoints(PublishPlan(enabled, version))
        /\ ~packages.exists => failAt = 0
        /\ last' = [cmd |-> "publish", enabled |-> enabled, version |-> version,
                    dispatched |-> "publish", result |-> st.result, log |-> st.log]
        /\ UNCHANGED <<ffiVars, retry, bindings, packages, released>>

\* main, any other subcommand: the last arm of the match.
NotFound(cmd) ==
    /\ cmd \notin {"bindgen", "release", "publish"}
    /\ last' = [cmd |-> cmd, enabled |-> <<>>, version |-> "-", dispatched |-> "-",
                result |-> CommandNotFound, log |-> <<>>]
    /\ UNCHANGED <<ffiVars, retry, bindings, packages, released>>

\* ------------------------------------------------ the CLI: cmd_retry

\* The publication commands, which publish runs through cmd_retry; in Publish
\* a failed push step is a cmd_retry call that ended in an error.
PushIds == {"twine upload", "gradlew publish", "git push", "git push --tags", "gem push"}

\* One retry more than the call sites ask for.
RetryArgsOneMore(id) == [base |-> 1000, retries |-> 11]

\* cmd_retry(name, Exponential::from_millis(1000), 10, cmd): the delay and the
\* count every call site of publish passes.
RetryArgs(id) == [base |-> 1000, retries |-> 10]

\* Exponential::from_millis(base): the i-th delay is base^i milliseconds, kept
\* as the base and the power.
Exponential(base, i) == [base |-> base, power |-> i]

\* cmd_retry is entered for a publication command.
RetryStart(id) ==
    /\ retry.status # "running"
    /\ retry' = [cmd |-> id, attempts |-> 0, waits |-> <<>>, status |-> "running"]
    /\ UNCHANGED <<ffiVars, bindings, packages, last, released>>

\* One attempt of the command: a success ends the call; a failure is followed
\* by the next delay and another attempt while retries are left, and ends the
\* call with an error when none is.
RetryAttempt(success) ==
    /\ retry.status = "running"
    /\ retry' =
          IF success
          THEN [retry EXCEPT !.attempts = @ + 1, !.status = "ok"]
          ELSE IF Len(retry.waits) < RetryArgs(retry.cmd).retries
          THEN [retry EXCEPT !.attempts = @ + 1,
                             !.waits = Append(@, Exponential(RetryArgs(retry.cmd).base,
                                                             Len(@) + 1))]
          ELSE [retry EXCEPT !.attempts = @ + 1, !.status = "error"]
    /\ UNCHANGED <<ffiVars, bindings, packages, last, released>>

\* The file-system side of the library does not move while the CLI runs.
InitCli ==
    /\ Init
    /\ canOpen = [p \in Paths |-> TRUE]
    /\ fsCanOpen

NextCli ==
    \/ \E e \in EnabledInputs : \E i \in FailPoints(BindgenPlan(e)) : Bindgen(e, i)
    \/ \E e \in EnabledInputs, v \in Versions :
          \E i \in FailPoints(ReleasePlan(e, v)) : Release(e, v, i)
    \/ \E e \in EnabledInputs, v \in Versions :
          \E i \in FailPoints(PublishPlan(e, v)) : Publish(e, v, i)
    \/ \E c \in Subcommands : NotFound(c)

SpecCli == InitCli /\ [][NextCli]_vars

\* One publication command after another going through cmd_retry.
NextRetry ==
    \/ \E id \in PushIds : RetryStart(id)
    \/ \E success \in BOOLEAN : RetryAttempt(success)

SpecRetry == InitCli /\ [][NextRetry]_vars

\* ------------------------------------------------------------ the claims

Opened == {t \in AllThreads : pc[t] = "opened"}

\* C1: every wallet call opens its own WalletDb connection from the object's
\* path (a ZcashWalletDb method: and from the object's params) and drops it
\* before it returns: the open connections are exactly one per call in
\* progress, each owned by its caller, and a thread outside a call holds none.
C1_HandlePerCall ==
    /\ \A h \in handles : h.owner \in Opened
    /\ \A t \in Opened : Cardinality({h \in handles : h.owner = t}) = 1
    /\ Cardinality(handles) = Cardinality(Opened)
    /\ \A h \in handles :
          /\ h.path = wdb.path
          /\ cur[h.owner] \in WalletMethods => h.params = wdb.params

\* Two threads are inside wallet methods at once, each with its connection.
C1_Witness ==
    /\ Opened = Threads
    /\ \A t \in Threads : cur[t] \in WalletMethods
    /\ Cardinality(handles) = 2

\* C2: a ZcashWalletDb method whose wrapped operation ran returns what the
\* wrapped operation returned: Ok(None) as Ok(None), Ok(Some(x)) and Ok(x) as an
\* Ok carrying x (mirrored), Err as Err.
C2_ReturnsWrappedResult ==
    (ret.fn \in WalletMethods /\ ret.wrapped.tag \in {"OkNone", "OkSome", "Ok", "Err"}) =>
        CASE ret.wrapped.tag = "OkNone" -> ret.res.tag = "OkNone"
          [] ret.wrapped.tag = "OkSome" -> ret.res.tag \in {"OkSome", "Ok"}
          [] ret.wrapped.tag = "Ok" -> ret.res.tag = "Ok"
          [] OTHER -> ret.res.tag = "Err"

IsMessageOf(err, e) ==
    /\ err.variant = "Message"
    /\ Len(err.error) = 3
    /\ err.error[3] = e

C4_OpenFailureIsFatal ==
    [][/\ (wdb # NoObject /\ ~canOpen[wdb.path] /\ pc[MainThread] = "idle") =>
              /\ pc'[MainThread] # "opened"
              /\ handles' = handles
              /\ (ret' # ret /\ ret'.fn \in WalletCalls) => ret'.res.tag = "Panic"
       /\ (fsdb = "none" /\ ~fsCanOpen /\ ret'.fn = "ZcashFsBlockDb::for_path") =>
              /\ ret'.res.tag = "Panic"
              /\ fsdb' = "none"]_vars

\* A method of the ZcashWalletDb was called on a path that could not be opened.
C4_Witness ==
    /\ ret.fn \in WalletMethods
    /\ ret.wrapped.tag = "OpenErr"
    /\ ret.res.tag = "Panic"
    /\ ~canOpen[wdb.path]

InFsOp == {t \in AllThreads : pc[t] = "fs_locked"}

\* C5: at most one thread at a time is inside an operation of the wrapped
\* FsBlockDb, and a thread inside one holds the mutex until the operation ends.
C5_MutexGuardsFsBlockDb ==
    /\ Cardinality(InFsOp) <= 1
    /\ \A t \in InFsOp : fsLock = t
    /\ fsLock # "free" => fsLock \in InFsOp

\* A thread is inside write_block_metadata after another call has written.
C5_Witness ==
    /\ \E t \in AllThreads : pc[t] = "fs_locked" /\ cur[t] = "write_block_metadata"
    /\ fsStore > 0

\* C6: setup, bindgen, release and publish are each dispatched to an operation
\* and any other subcommand ends with "Command not found. See help.".
C6_FourCommands ==
    /\ last.cmd \in {"setup", "bindgen", "release", "publish"} =>
          /\ last.dispatched # "-"
          /\ last.result # CommandNotFound
    /\ last.cmd \in Subcommands \ {"setup", "bindgen", "release", "publish"} =>
          /\ last.result = CommandNotFound
          /\ last.log = <<>>

\* C7: a release run without a bindings directory returns the error and changes
\* nothing: packages is as it was and no step ran.
C7_ReleaseNeedsBindgen ==
    [][(~bindings.exists /\ last' # last /\ last'.cmd = "release") =>
          /\ last'.result = NeedsBindgen
          /\ last'.log = <<>>
          /\ packages' = packages
          /\ bindings' = bindings]_vars

\* Release was refused while packages of an earlier release exist.
C7_Witness ==
    /\ last.cmd = "release"
    /\ last.result = NeedsBindgen
    /\ packages.exists
    /\ packages.files # {}

\* C8: a publish run without a packages directory returns the error and runs
\* no step.
C8_PublishNeedsRelease ==
    (last.cmd = "publish" /\ ~packages.exists) =>
        /\ last.result = NeedsRelease
        /\ last.log = <<>>

\* Publish was refused for languages that have publication steps.
C8_Witness ==
    /\ last.cmd = "publish"
    /\ last.result = NeedsRelease
    /\ Len(EnabledLangs(last.enabled)) > 0

\* The languages a run pushed something for.
Pushed(log) == {log[i][1] : i \in {j \in DOMAIN log : log[j][2] \in PushIds /\ log[j][3] = "ok"}}

\* C9: publish pushes a language's package only if the release that built it
\* ran all its steps for that language.
C9_PublishOnlyReleased ==
    last.cmd = "publish" => Pushed(last.log) \subseteq released

\* Where release puts the shared library, the binding and the version of a
\* language's package, and where it takes the first two from.
PackageOf(lang) ==
    CASE lang = "python" ->
            [lib |-> "python/zcash/libuniffi_zcash.so", libFrom |-> "python/libuniffi_zcash.so",
             binding |-> "python/zcash/zcash.py", bindingFrom |-> "python/zcash.py",
             version |-> "python/setup.py"]
      [] lang = "kotlin" ->
            [lib |-> "kotlin/lib/libs/libuniffi_zcash.so",
             libFrom |-> "kotlin/uniffi/zcash/libuniffi_zcash.so",
             binding |-> "kotlin/lib/src/main/kotlin/zcash/Zcash.kt",
             bindingFrom |-> "kotlin/uniffi/zcash/zcash.kt",
             version |-> "kotlin/lib/build.gradle.kts"]
      [] lang = "swift" ->
            [lib |-> "swift/Zcash/Sources/zcashFFI/libuniffi_zcash.so",
             libFrom |-> "swift/libuniffi_zcash.so",
             binding |-> "swift/Zcash/Sources/Zcash/zcash.swift",
             bindingFrom |-> "swift/zcash.swift",
             version |-> "swift/Zcash/.git/tag"]
      [] OTHER ->
            [lib |-> "ruby/lib/libuniffi_zcash.so", libFrom |-> "ruby/libuniffi_zcash.so",
             binding |-> "ruby/lib/zcash.rb", bindingFrom |-> "ruby/zcash.rb",
             version |-> "ruby/zcash.gemspec"]

\* The binding of a package: the generated file, for ruby with its ffi_lib line
\* rewritten.
BindingIn(lang, generated) ==
    IF lang = "ruby" THEN generated \o "+ffi_lib path" ELSE generated

\* C10: after a release that succeeded with version v, the package of every
\* enabled language holds the shared library and the binding that bindings
\* holds for it, and v as its version.
C10_PackagesComplete ==
    (last.cmd = "release" /\ last.result = "Ok") =>
        \A i \in DOMAIN EnabledLangs(last.enabled) :
            LET lang == EnabledLangs(last.enabled)[i]
                pk == PackageOf(lang)
            IN  /\ Has(bindings, pk.libFrom) /\ Has(bindings, pk.bindingFrom)
                /\ <<pk.lib, ContentOf(bindings, pk.libFrom)>> \in packages.files
                /\ <<pk.binding, BindingIn(lang, ContentOf(bindings, pk.bindingFrom))>>
                       \in packages.files
                /\ <<pk.version, last.version>> \in packages.files

\* A release of two languages succeeded.
C10_Witness ==
    /\ last.cmd = "release"
    /\ last.result = "Ok"
    /\ Len(EnabledLangs(last.enabled)) = 2
    /\ last.version = "0.2.0"

\* C11: ZcashWalletDb::for_path opens the database at the path: when it
\* returns Ok the database at that path could be opened.
C11_ForPathOpens ==
    [][(ret' # ret /\ ret'.fn = "ZcashWalletDb::for_path" /\ ret'.res.tag = "Ok") =>
          canOpen[wdb'.path]]_vars

\* C12: once constructed, the ZcashWalletDb keeps its path and params, and
\* every connection a ZcashWalletDb method opens, whichever thread calls it and
\* whatever earlier calls did, is to that path with those params.
C12_PathAndParamsFixed ==
    [][wdb # NoObject =>
          /\ wdb' = wdb
          /\ \A h \in handles' \ handles :
                cur'[h.owner] \in WalletMethods =>
                    h.path = wdb.path /\ h.params = wdb.params]_vars

\* Two threads are inside methods of a TestNetwork object after a write and a
\* change of the file system.
C12_Witness ==
    /\ wdb.params = "TestNetwork"
    /\ \A t \in Threads : pc[t] = "opened" /\ cur[t] \in WalletMethods
    /\ \A h \in handles : h.params = "TestNetwork"
    /\ store[wdb.path] > 0
    /\ \E p \in Paths : ~canOpen[p]

\* C13: from_bytes returns None when the bytes are no valid encoding of a key
\* (the wrapped parser returns None).
C13_FromBytesNone ==
    (ret.fn = "from_bytes" /\ ret.wrapped.tag = "OkNone") => ret.res.tag = "OkNone"

Rank(lang) == CHOOSE i \in DOMAIN SupportedLang : SupportedLang[i] = lang

\* The steps of a run that belong to a language.
LangSteps(log) == SelectSeq(log, LAMBDA e : e[1] # "-")

\* C15: bindgen, release and publish process the enabled languages in the
\* order python, kotlin, swift, ruby whatever the argument's order: the steps
\* of a run are those of supported, enabled languages only, in declaration
\* order, no step of a language twice, and a run that succeeded has processed
\* every supported language the argument names.
C15_FixedLanguageOrder ==
    last.cmd \in {"bindgen", "release", "publish"} =>
        LET log == LangSteps(last.log)
            named == {last.enabled[i] : i \in DOMAIN last.enabled}
            supported == {SupportedLang[i] : i \in DOMAIN SupportedLang}
        IN  /\ \A i \in DOMAIN log : log[i][1] \in supported \cap named
            /\ \A i, j \in DOMAIN log :
                  i < j => /\ Rank(log[i][1]) <= Rank(log[j][1])
                           /\ log[i][1] = log[j][1] => log[i][2] # log[j][2]
            /\ last.result = "Ok" =>
                  \A l \in supported \cap named : \E i \in DOMAIN log : log[i][1] = l

\* A publish named swift first and twice, ruby, and an unsupported language,
\* and pushed swift, then ruby.
C15_Witness ==
    /\ last.cmd = "publish"
    /\ last.result = "Ok"
    /\ last.enabled = <<"swift", "ruby", "go", "swift">>
    /\ Len(last.log) = 3
    /\ last.log[1][1] = "swift"
    /\ last.log[3][1] = "ruby"

\* The steps the last run had to go through.
PlanOfLast ==
    CASE last.cmd = "bindgen" -> BindgenPlan(last.enabled)
      [] last.cmd = "release" -> ReleasePlan(last.enabled, last.version)
      [] OTHER -> PublishPlan(last.enabled, last.version)

\* The enabled languages that come before language lang in a run.
EarlierLangs(lang) ==
    IF lang = "-" THEN {}
    ELSE {SupportedLang[i] : i \in {j \in DOMAIN SupportedLang :
              /\ j < Rank(lang)
              /\ \E k \in DOMAIN last.enabled : last.enabled[k] = SupportedLang[j]}}

\* C16: the commands are fail-fast and do not roll back: a run in which a step
\* failed went through the steps of its plan in order up to that step, which is
\* the last it executed and the only one that failed, and what it produced for
\* the languages before the failing one is in place (bindgen: the binding and
\* the library in bindings; release: the binding, the library and the version
\* in packages).
C16_FailFast ==
    (last.cmd \in {"bindgen", "release", "publish"} /\ last.result = "step failed") =>
        LET n == Len(last.log)
            plan == PlanOfLast
        IN  /\ n >= 1 /\ n <= Len(plan)
            /\ \A i \in 1..n : /\ last.log[i][1] = plan[i].lang
                               /\ last.log[i][2] = plan[i].id
                               /\ last.log[i][3] = IF i = n THEN "failed" ELSE "ok"
            /\ \A l \in EarlierLangs(last.log[n][1]) :
                  /\ last.cmd = "bindgen" =>
                        /\ Has(bindings, PackageOf(l).libFrom)
                        /\ Has(bindings, PackageOf(l).bindingFrom)
                  /\ last.cmd = "release" =>
                        /\ Has(packages, PackageOf(l).lib)
                        /\ Has(packages, PackageOf(l).binding)
                        /\ <<PackageOf(l).version, last.version>> \in packages.files

\* A release did python, then failed in kotlin before its last step.
C16_Witness ==
    /\ last.cmd = "release"
    /\ last.result = "step failed"
    /\ last.enabled = <<"kotlin", "python">>
    /\ last.log[Len(last.log)] = <<"kotlin", "gradle publishToMavenLocal", "failed">>
    /\ Has(packages, "python/dist")

\* The files generate_bindings leaves in bindings for one language.
BindgenOutputs(lang) ==
    RunSteps(RunState(NoDir, NoDir), BindgenSteps(lang), 1, 0, "-").bindings.files

\* The same for the languages an argument enables.
OutputsFor(enabled) ==
    UNION {BindgenOutputs(EnabledLangs(enabled)[i]) : i \in DOMAIN EnabledLangs(enabled)}

ReleaseReads(lang) ==
    LET steps == ReleaseSteps(lang, "-")
    IN  {steps[i].src : i \in {j \in DOMAIN steps : steps[j].kind = "copy"}}

\* C18: after a successful bindgen for a set of languages, every file that
\* release reads from bindings for one of them is where bindgen left it, and a
\* release for the same set that follows fails in no step that reads bindings.
C18_ReleaseFindsBindings ==
    [][(last.cmd = "bindgen" /\ last.result = "Ok") =>
          /\ \A i \in DOMAIN EnabledLangs(last.enabled) :
                \A path \in ReleaseReads(EnabledLangs(last.enabled)[i]) :
                    Has(bindings, path)
          /\ (last'.cmd = "release" /\ EnabledLangs(last'.enabled) = EnabledLangs(last.enabled)) =>
                \A i \in DOMAIN last'.log :
                    last'.log[i][3] = "failed" =>
                        last'.log[i][2] \notin {"copy shared lib", "copy header", "copy binding"}]_vars

\* A release for swift and ruby copied the library, the header and the bindings.
C18_Witness ==
    /\ last.cmd = "release"
    /\ last.enabled = <<"swift", "ruby", "go", "swift">>
    /\ last.version = "0.1.0"
    /\ \E i \in DOMAIN last.log : last.log[i] = <<"swift", "copy header", "ok">>
    /\ \E i \in DOMAIN last.log : last.log[i] = <<"ruby", "copy binding", "ok">>

\* C19: a publication command is retried with exponential delay from 1000 ms
\* and at most 10 retries: the i-th delay is 1000^i ms, the command is tried
\* once more than delays were slept while the call runs or ends, a success ends
\* the call at that attempt, and the call ends in an error exactly when the
\* first attempt and all 10 retries failed, so a call makes at most 11 attempts.
C19_BoundedRetry ==
    /\ retry.attempts <= 11
    /\ Len(retry.waits) <= 10
    /\ \A i \in DOMAIN retry.waits : retry.waits[i] = [base |-> 1000, power |-> i]
    /\ retry.status = "running" => retry.attempts = Len(retry.waits)
    /\ retry.status = "ok" => retry.attempts = Len(retry.waits) + 1
    /\ retry.status = "error" => retry.attempts = 11 /\ Len(retry.waits) = 10

\* gem push failed, was retried ten times and succeeded at the last retry.
C19_Witness ==
    /\ retry.cmd = "gem push"
    /\ retry.status = "ok"
    /\ retry.attempts = 11
    /\ Len(retry.waits) = 10

====
